---- MODULE Spec2Model ----
(***************************************************************************)
(* Model of the dataset persistence engine of sheetapi (src/src/db.rs and   *)
(* src/src/options.rs): the two collections "datasets" and "data_rows" and  *)
(* the save path DB::save_import_with_rows with everything it calls.        *)
(*                                                                          *)
(* Object identifiers are positive integers; a string that is meant to be   *)
(* an identifier is a record [kind, oid], well formed (kind = "hex") or not *)
(* (kind = "bad"), so that ObjectId::from_str can fail as it does in Rust.  *)
(* An Option<T> is a record [some, val].                                    *)
(***************************************************************************)
EXTENDS Integers, Sequences, FiniteSets, TLC

\* ---------------------------------------------------------------- bounds
\* number of calls of save_import_with_rows in one behaviour
MaxSaves == 3
\* the same where a storage operation may fail
MaxFailSaves == 2
\* calls of save_import_with_rows started when calls run concurrently
MaxConcSaves == 2

\* ---------------------------------------------------------------- inputs
\* (filename, sheet index) of a request
Pairs == {<<"a", 0>>, <<"a", 1>>, <<"b", 0>>}
\* title, description and one processing parameter ("mode") of a request
Meta1 == [title |-> "t1", description |-> "d1", mode |-> "sync"]
Meta2 == [title |-> "t2", description |-> "d2", mode |-> "preview"]
Metas == {Meta1, Meta2}
\* row payloads: JSON objects with the keys "id" and "v"
P(i, x) == [id |-> i, v |-> x]
Batches == { <<>>, <<P(1, 1)>>, <<P(1, 2), P(2, 1)>> }
PkNames == {"id"}
\* where a storage operation of a save may fail ("none": nowhere)
FailPoints == {"none", "find", "update", "insert", "readback", "delete", "rows"}

\* ---------------------------------------------------------------- options
None(d) == [some |-> FALSE, val |-> d]
Some(x) == [some |-> TRUE, val |-> x]

BadStr == [kind |-> "bad", oid |-> 0]
HexStr(n) == [kind |-> "hex", oid |-> n]
NoStr == None(BadStr)
NoOid == None(0)
NoPk == None("")

\* ObjectId::from_str: Ok(oid) for 24 hex digits, Err otherwise
ObjectIdFromStr(s) ==
  IF s.kind = "hex" THEN [ok |-> TRUE, oid |-> s.oid] ELSE [ok |-> FALSE, oid |-> 0]

\* ObjectId::to_string
ObjectIdToString(oid) == [kind |-> "hex", oid |-> oid]

\* ---------------------------------------------------------------- state
VARIABLES
  datasets,   \* collection "datasets", in natural (insertion) order
  data_rows,  \* collection "data_rows", in natural (insertion) order
  nextId,     \* next ObjectId for datasets and imports
  nextRow,    \* next ObjectId for row documents
  now,        \* chrono::Utc::now(), one tick per save
  last,       \* the last call of save_import_with_rows: arguments and result
  prev,       \* the call before it
  query,      \* the read-side call made on the present store, if any: a
              \* function of options.rs or fetch_dataset, arguments and result
  inflight    \* the calls that are between two storage operations, when
              \* requests are served concurrently

vars == <<datasets, data_rows, nextId, nextRow, now, last, prev, query, inflight>>

\* no read-side call since the last save
NoQuery == [op |-> "none"]

\* ---------------------------------------------------------------- options.rs
\* ReplaceMode::new with the two tests in the other order
ReplaceModeNewImportFirst(append, has_import_id) ==
  IF has_import_id THEN "ReplaceImport"
  ELSE IF append THEN "Append"
  ELSE "ReplaceAll"

\* ReplaceMode::new
ReplaceModeNew(append, has_import_id) ==
  IF append THEN "Append"
  ELSE IF has_import_id THEN "ReplaceImport"
  ELSE "ReplaceAll"

\* DataSetMatcher::from_id / from_name_index, chosen as save_import does
DataSetMatcherOf(dataset_id_opt, fname, s_index) ==
  IF dataset_id_opt.some
    THEN [variant |-> "Id", id |-> dataset_id_opt.val, name |-> "", index |-> 0]
    ELSE [variant |-> "NameIndex", id |-> BadStr, name |-> fname, index |-> s_index]

\* to_criteria that takes the identifier branch for both variants
ToCriteriaIdOnly(m) ==
  [by |-> "id", name |-> "", sheet_index |-> 0,
   id |-> IF ObjectIdFromStr(m.id).ok THEN Some(ObjectIdFromStr(m.id).oid) ELSE NoOid]

\* DataSetMatcher::to_criteria: {name, sheet_index} or {_id: from_str(id).ok()},
\* where a None identifier becomes the BSON null
ToCriteria(m) ==
  IF m.variant = "NameIndex"
    THEN [by |-> "name", name |-> m.name, sheet_index |-> m.index, id |-> NoOid]
    ELSE [by |-> "id", name |-> "", sheet_index |-> 0,
          id |-> IF ObjectIdFromStr(m.id).ok THEN Some(ObjectIdFromStr(m.id).oid) ELSE NoOid]

\* a dataset document against a criteria document; {_id: null} matches only
\* documents without an _id, and every stored document has one
Matches(d, c) ==
  IF c.by = "name"
    THEN d.name = c.name /\ d.sheet_index = c.sheet_index
    ELSE c.id.some /\ d._id = c.id.val

\* Collection::find_one: the first match in natural order (0: none)
FindOne(coll, c) ==
  IF \E i \in 1..Len(coll) : Matches(coll[i], c)
    THEN CHOOSE i \in 1..Len(coll) :
           Matches(coll[i], c) /\ \A j \in 1..(i - 1) : ~Matches(coll[j], c)
    ELSE 0

\* ---------------------------------------------------------------- db.rs: datasets
\* BSON documents of the model are records; Document::get is a lookup that
\* may miss
ContainsKey(doc, key) == key \in DOMAIN doc

\* save_import, lines 454-462: the options without the transport-only keys
\* (dataset_id, import_id, filename, title, description, user_ref)
SanitizedOptions(inp) ==
  [sheet_index |-> inp.sheet_index, mode |-> inp.meta.mode, data_pk |-> inp.data_pk]

\* update_import, line 398: values.insert("updated_at", now); values is the
\* caller's document (&mut), so the caller sees the key as well
WithUpdatedAt(doc, t) ==
  [sheet_index |-> doc.sheet_index, mode |-> doc.mode, data_pk |-> doc.data_pk,
   updated_at |-> t]

\* update_import, lines 399-406: the import document of this save. The
\* sanitized options hold no "filename" (get_str gives the default ""), and
\* their "sheet_index" is a 64-bit integer, which get_i32 refuses (default 0)
ImportOfValues(values, oid, t) ==
  [_id |-> oid, dt |-> t,
   filename |-> IF ContainsKey(values, "filename") THEN values.filename ELSE "",
   sheet_index |-> 0]

\* update_record, lines 262-267: the import row that $addToSet appends
ImportRow(oid, t) == [_id |-> oid, dt |-> t, filename |-> "test", sheet_index |-> 0]

\* $addToSet on an array: appended unless an equal element is there
AddToSet(arr, x) ==
  IF \E i \in 1..Len(arr) : arr[i] = x THEN arr ELSE Append(arr, x)

\* update_record, lines 239-259, with add = (key, doc, oid_opt). Inside the
\* `if let Some((key, doc, oid_opt)) = add` the name doc is the import document
\* of the caller, not the record found, so doc.get(key) looks for "imports"
\* in the import document. Gives the array that goes into $set under key,
\* if any, and whether $addToSet is used.
SetDataOfAdd(add) ==
  IF add.oid_opt.some
    THEN IF ContainsKey(add.doc, add.key)
           THEN LET inner_vec == add.doc[add.key]
                    hit == {i \in 1..Len(inner_vec) : inner_vec[i] = add.oid_opt.val}
                IN IF hit # {}
                     THEN [set |-> Some([inner_vec EXCEPT
                                          ![CHOOSE i \in hit : \A j \in hit : i <= j] = add.doc]),
                           add_to_set |-> FALSE]
                     ELSE [set |-> None(<<>>), add_to_set |-> FALSE]
           ELSE [set |-> None(<<>>), add_to_set |-> FALSE]
    ELSE [set |-> None(<<>>), add_to_set |-> TRUE]

\* DB::update_record on "datasets": find_one, then update_one with
\* {$set: {options: values [, key: array]} [, $addToSet: {imports: import_row}]}
\* Result: the collection, the next free identifier and the returned triple.
UpdateRecord(coll, filter, values, add, nid, t, fail) ==
  LET Found(idx, sd) ==
        LET nid2 == IF sd.add_to_set THEN nid + 1 ELSE nid
            imports1 == IF sd.set.some THEN sd.set.val ELSE coll[idx].imports
            imports2 == IF sd.add_to_set THEN AddToSet(imports1, ImportRow(nid, t))
                        ELSE imports1
        IN IF fail = "update"
             THEN [coll |-> coll, nextId |-> nid2, updated |-> FALSE, exists |-> FALSE,
                   id |-> NoOid]
             ELSE [coll |-> [coll EXCEPT ![idx] = [@ EXCEPT !.options = values,
                                                            !.imports = imports2]],
                   nextId |-> nid2, updated |-> TRUE, exists |-> TRUE,
                   id |-> Some(coll[idx]._id)]
      Update(idx) ==
        IF idx = 0
          THEN [coll |-> coll, nextId |-> nid, updated |-> FALSE, exists |-> FALSE,
                id |-> NoOid]
          ELSE Found(idx, SetDataOfAdd(add))
  IN Update(IF fail = "find" THEN 0 ELSE FindOne(coll, filter))

\* DB::update_import: the pair returned is (oid, oid), both the identifier
\* that update_record returned, which is the _id of the dataset
UpdateImport(coll, filter, doc, import_id_opt, nid, t, fail) ==
  LET Result(values, r) ==
        [coll |-> r.coll, nextId |-> r.nextId, values |-> values,
         res |-> IF r.id.some THEN Some(<<r.id.val, r.id.val>>) ELSE None(<<0, 0>>)]
      Call(values) ==
        Result(values,
               UpdateRecord(coll, filter, values,
                            [key |-> "imports", doc |-> ImportOfValues(values, nid, t),
                             oid_opt |-> import_id_opt],
                            nid + 1, t, fail))
  IN Call(WithUpdatedAt(doc, t))

\* DB::insert_record on "datasets": insert_one, then find_one by the new _id
InsertRecord(coll, values, nid, fail) ==
  LET Stored(stored) ==
        [coll |-> Append(coll, stored), nextId |-> nid + 1,
         record |-> IF fail = "readback" THEN None(<<>>) ELSE Some(<<stored>>)]
  IN IF fail = "insert"
       THEN [coll |-> coll, nextId |-> nid, record |-> None(<<>>)]
       ELSE Stored([_id |-> nid] @@ values)

\* save_import, lines 487-496: the dataset document of the insert path
SaveDoc(inp, options, import, t) ==
  [user_ref |-> inp.user_ref, name |-> inp.filename, title |-> inp.meta.title,
   description |-> inp.meta.description, sheet_index |-> inp.sheet_index,
   options |-> options, imports |-> <<import>>, created_at |-> t]

\* DB::save_import after line 474 (import_id_opt is the parsed identifier):
\* update_import and, when that gives nothing, the insert of a new dataset
SaveImport(coll, inp, import_id_opt, nid, t, fail) ==
  LET Inserted(ins) ==
        IF ins.record.some /\ Len(ins.record.val[1].imports) > 0
          THEN [coll |-> ins.coll, nextId |-> ins.nextId, path |-> "inserted",
                res |-> Some(<<ins.record.val[1]._id,
                               ins.record.val[1].imports[Len(ins.record.val[1].imports)]._id>>)]
          ELSE [coll |-> ins.coll, nextId |-> ins.nextId, path |-> "none",
                res |-> None(<<0, 0>>)]
      Resolved(u) ==
        IF u.res.some
          THEN [coll |-> u.coll, nextId |-> u.nextId, path |-> "updated", res |-> u.res]
          ELSE Inserted(InsertRecord(u.coll,
                                     SaveDoc(inp, u.values,
                                             [_id |-> u.nextId, dt |-> t,
                                              filename |-> inp.filename,
                                              sheet_index |-> inp.sheet_index], t),
                                     u.nextId + 1, fail))
  IN Resolved(UpdateImport(coll,
                           ToCriteria(DataSetMatcherOf(inp.dataset_id, inp.filename,
                                                       inp.sheet_index)),
                           SanitizedOptions(inp), import_id_opt, nid, t, fail))

\* ---------------------------------------------------------------- db.rs: data_rows
\* delete_by_id that removes nothing
DeleteByIdNothing(coll, field_name, id) == coll

\* delete_by_id with an empty filter
DeleteByIdUnscoped(coll, field_name, id) == <<>>

\* delete_many / delete_by_id: removes the documents whose field equals id
DeleteById(coll, field_name, id) ==
  LET Keep(r) == r[field_name] # id
  IN SelectSeq(coll, Keep)

\* update_by_inner_id: update is the whole row document {dataset_id,
\* import_id, data}, and it is update, not update.data, that is asked for the
\* key inner_pk. The filter is {"data.<inner_pk>": update[inner_pk]}, the
\* update {$set: update} on the first match; update_one is called without
\* upsert, so upserted_id is None whatever it matched.
UpdateByInnerId(coll, inner_pk, update) ==
  LET Matched(hit) ==
        IF hit = {}
          THEN [coll |-> coll, id |-> NoOid]
          ELSE LET first == CHOOSE i \in hit : \A j \in hit : i <= j
               IN [coll |-> [coll EXCEPT ![first] = [_id |-> coll[first]._id] @@ update],
                   id |-> NoOid]
  IN IF ContainsKey(update, inner_pk)
       THEN Matched({i \in 1..Len(coll) :
                       /\ ContainsKey(coll[i].data, inner_pk)
                       /\ coll[i].data[inner_pk] = update[inner_pk]})
       ELSE [coll |-> coll, id |-> NoOid]

\* insert_many, lines 323-337: the loop over the rows when data_pk is given;
\* n counts the entries of results
\* the state of the loop after the row at index i: the collection, the
\* number of entries of results, the next _id
PkLoop(coll, rows, pk, nrow, fail) ==
  LET Step(acc, row) ==
        LET Row(u) ==
              IF u.id.some
                THEN [coll |-> u.coll, n |-> acc.n + 1, nextRow |-> acc.nextRow]
              ELSE IF fail = "rows"
                THEN [coll |-> u.coll, n |-> acc.n, nextRow |-> acc.nextRow]
              ELSE [coll |-> Append(u.coll, [_id |-> acc.nextRow] @@ row),
                    n |-> acc.n + 1, nextRow |-> acc.nextRow + 1]
        IN Row(UpdateByInnerId(acc.coll, pk, row))
      after[i \in 0..Len(rows)] ==
        IF i = 0
          THEN [coll |-> coll, n |-> 0, nextRow |-> nrow]
          ELSE Step(after[i - 1], rows[i])
  IN after[Len(rows)]

\* Collection::insert_many: every document gets a fresh _id; an empty list
\* of documents is refused by the driver (an Err, like a storage failure)
AppendAll(coll, rows, nrow) ==
  coll \o [k \in 1..Len(rows) |-> [_id |-> nrow + k - 1] @@ rows[k]]

\* DB::insert_many on "data_rows": the delete of the replaced scope, whose
\* result is only printed, then the rows; ids is the number of entries of the
\* returned map, if one is returned
InsertMany(coll, rows, data_pk, delete_key_ref, nrow, fail) ==
  LET Looped(loop) ==
        [coll |-> loop.coll, nextRow |-> loop.nextRow, ids |-> Some(loop.n)]
      Insert(coll1) ==
        IF data_pk.some
          THEN Looped(PkLoop(coll1, rows, data_pk.val, nrow, fail))
        ELSE IF fail = "rows" \/ Len(rows) = 0
          THEN [coll |-> coll1, nextRow |-> nrow, ids |-> None(0)]
        ELSE [coll |-> AppendAll(coll1, rows, nrow), nextRow |-> nrow + Len(rows),
              ids |-> Some(Len(rows))]
  IN Insert(IF delete_key_ref.some /\ fail # "delete"
              THEN DeleteById(coll, delete_key_ref.val[1], delete_key_ref.val[2])
              ELSE coll)

\* the match of save_rows with ReplaceAll keyed by the import id as well
DeleteKeyRefsByImport(replace_mode, dataset_id, import_id) ==
  IF replace_mode = "ReplaceAll" THEN Some(<<"import_id", import_id>>)
  ELSE IF replace_mode = "ReplaceImport" THEN Some(<<"import_id", import_id>>)
  ELSE None(<<"", 0>>)

\* the match of save_rows without the arm that deletes nothing
DeleteKeyRefsNoAppendArm(replace_mode, dataset_id, import_id) ==
  IF replace_mode = "ReplaceImport" THEN Some(<<"import_id", import_id>>)
  ELSE Some(<<"dataset_id", dataset_id>>)

\* save_rows, lines 438-442
DeleteKeyRefs(replace_mode, dataset_id, import_id) ==
  IF replace_mode = "ReplaceAll" THEN Some(<<"dataset_id", dataset_id>>)
  ELSE IF replace_mode = "ReplaceImport" THEN Some(<<"import_id", import_id>>)
  ELSE None(<<"", 0>>)

\* save_rows, lines 430-437: the row documents. The payload values of the
\* model are numbers, which convert_datetime_strings leaves as they are (it
\* only looks at strings)
RowDocs(rows, dataset_id, import_id) ==
  [i \in 1..Len(rows) |->
     [dataset_id |-> dataset_id, import_id |-> import_id, data |-> rows[i]]]

\* DB::save_rows
SaveRows(coll, dataset_id, import_id, rows, data_pk, replace_mode, nrow, fail) ==
  LET Counted(r) ==
        [coll |-> r.coll, nextRow |-> r.nextRow,
         count |-> IF r.ids.some THEN r.ids.val ELSE 0]
  IN Counted(InsertMany(coll, RowDocs(rows, dataset_id, import_id), data_pk,
                        DeleteKeyRefs(replace_mode, dataset_id, import_id), nrow, fail))

\* ---------------------------------------------------------------- the save
\* the record of a call: its arguments, the storage failure it met, how it
\* ended ("ok": Some((dataset id, import id, count)), "failure": None,
\* "panic": the unwrap of line 474), the strings it returned, the replace
\* mode it used and the path save_import took
NoCall ==
  [seq |-> 0,
   inp |-> [filename |-> "", sheet_index |-> 0,
            meta |-> [title |-> "", description |-> "", mode |-> ""],
            user_ref |-> "", dataset_id |-> NoStr, data_pk |-> NoPk,
            import_id |-> NoStr, append |-> FALSE, rows |-> <<>>],
   fail |-> "none", outcome |-> "none", dataset_id |-> BadStr, import_id |-> BadStr,
   count |-> 0, mode |-> "", path |-> "none"]

\* what is kept of the call before the last one
Summary(call) ==
  [outcome |-> call.outcome, mode |-> call.mode, path |-> call.path,
   dataset_id |-> call.dataset_id, count |-> call.count,
   filename |-> call.inp.filename,
   sheet_index |-> call.inp.sheet_index,
   has_dataset_id |-> call.inp.dataset_id.some,
   has_import_id |-> call.inp.import_id.some]

\* save_import_with_rows that writes the rows before it looks at what
\* save_import returned
SaveAbortedAfterRows(call, s) ==
  /\ last' = [call EXCEPT !.outcome = "failure"]
  /\ datasets' = s.coll
  /\ nextId' = s.nextId
  /\ data_rows' = AppendAll(data_rows, RowDocs(call.inp.rows, 0, 0), nextRow)
  /\ nextRow' = nextRow + Len(call.inp.rows)

\* save_import_with_rows, line 537: save_import gave None, so the function
\* returns None without calling save_rows; s is what save_import did
SaveAborted(call, s) ==
  /\ last' = [call EXCEPT !.outcome = "failure"]
  /\ datasets' = s.coll
  /\ nextId' = s.nextId
  /\ UNCHANGED <<data_rows, nextRow>>

\* DB::save_import_with_rows(options, rows, import_id_opt, append), with
\* data_pk read from the options
SaveImportWithRows(inp, fail) ==
  LET has_import_id == inp.import_id.some
      panics == has_import_id /\ ~ObjectIdFromStr(inp.import_id.val).ok
      import_id_opt ==
        IF has_import_id THEN Some(ObjectIdFromStr(inp.import_id.val).oid) ELSE NoOid
      call == [NoCall EXCEPT !.seq = last.seq + 1, !.inp = inp, !.fail = fail]
      Written(s, replace_mode, w) ==
        /\ last' = [call EXCEPT !.outcome = "ok",
                                !.dataset_id = ObjectIdToString(s.res.val[1]),
                                !.import_id = ObjectIdToString(s.res.val[2]),
                                !.count = w.count,
                                !.mode = replace_mode,
                                !.path = s.path]
        /\ datasets' = s.coll
        /\ nextId' = s.nextId
        /\ data_rows' = w.coll
        /\ nextRow' = w.nextRow
      Resolved(s, replace_mode) ==
        IF ~s.res.some
          THEN SaveAborted(call, s)
          ELSE Written(s, replace_mode,
                       SaveRows(data_rows, s.res.val[1], s.res.val[2], inp.rows,
                                inp.data_pk, replace_mode, nextRow, fail))
  IN /\ prev' = Summary(last)
     /\ now' = now + 1
     /\ IF panics
          THEN /\ last' = [call EXCEPT !.outcome = "panic"]
               /\ UNCHANGED <<datasets, data_rows, nextId, nextRow>>
          ELSE Resolved(SaveImport(datasets, inp, import_id_opt, nextId, now, fail),
                        ReplaceModeNew(inp.append, has_import_id))

\* ---------------------------------------------------------------- concurrent calls
\* the handlers that may run at the same time
Procs == {1, 2}

\* a call of save_import_with_rows between two storage operations: "idle"
\* (no call), "resolved" (save_import returned identifiers), "deleted"
\* (insert_many has deleted the replaced scope), "done" (returned), and
\* "stopped" (the handler ended after the delete, before the insert)
IdleSave ==
  [pc |-> "idle", inp |-> NoCall.inp, dataset_id |-> 0, import_id |-> 0, mode |-> "",
   path |-> "none", count |-> 0]
\* a call of fetch_dataset: "idle", "found" (find_one gave the dataset),
\* "read" (find gave the rows), "done" (count_documents gave the total)
IdleFetch ==
  [pc |-> "idle", dataset_id |-> BadStr, limit |-> 0, skip |-> 0, dset |-> 0,
   rows |-> <<>>, total |-> 0]
NoneInFlight == [saves |-> [p \in Procs |-> IdleSave], fetch |-> IdleFetch]

\* ---------------------------------------------------------------- requests
\* identifiers a client can know: those of the stored datasets and of their
\* imports, and the import id string the last save returned
DatasetIds == {datasets[i]._id : i \in 1..Len(datasets)}
ImportIdsOf(S) ==
  UNION {{datasets[i].imports[j]._id : j \in 1..Len(datasets[i].imports)} : i \in S}
ReturnedImportIdArgs == IF last.outcome = "ok" THEN {Some(last.import_id)} ELSE {}
KnownImportIdArgs ==
  {Some(HexStr(i)) : i \in ImportIdsOf(1..Len(datasets))} \cup ReturnedImportIdArgs

\* a dataset id in the options: a malformed string, a well-formed
\* identifier of no dataset (0 is never allocated), or that of a dataset
DatasetIdArgs == {Some(BadStr), Some(HexStr(0))} \cup {Some(HexStr(d)) : d \in DatasetIds}

PkArgs == {NoPk} \cup {Some(k) : k \in PkNames}

Request(pair, meta, dataset_id, data_pk, import_id, append, rows) ==
  [filename |-> pair[1], sheet_index |-> pair[2], meta |-> meta, user_ref |-> "u",
   dataset_id |-> dataset_id, data_pk |-> data_pk, import_id |-> import_id,
   append |-> append, rows |-> rows]

\* requests that vary how the dataset is resolved, with one batch of rows:
\* by (name, sheet index) with or without a known import id, by a dataset
\* id, and one with a malformed import id
MatchRequests ==
  {Request(pair, meta, NoStr, NoPk, i, FALSE, <<P(1, 1)>>) :
     pair \in Pairs, meta \in Metas, i \in {NoStr} \cup KnownImportIdArgs}
  \cup
  {Request(pair, Meta1, d, NoPk, NoStr, FALSE, <<P(1, 1)>>) :
     pair \in Pairs, d \in DatasetIdArgs}
  \cup
  {Request(<<"a", 0>>, Meta1, NoStr, NoPk, Some(BadStr), FALSE, <<P(1, 1)>>)}

\* requests that vary what is done with the rows, for the pair ("a", 0):
\* with or without an import id of a dataset of that pair, or the one the
\* last save returned
RowRequests ==
  {Request(<<"a", 0>>, Meta1, NoStr, pk, i, append, rows) :
     pk \in PkArgs,
     i \in {NoStr} \cup ReturnedImportIdArgs \cup
           {Some(HexStr(k)) : k \in ImportIdsOf({n \in 1..Len(datasets) :
                                 datasets[n].name = "a" /\ datasets[n].sheet_index = 0})},
     append \in BOOLEAN, rows \in Batches}

Requests == MatchRequests \cup RowRequests

\* ---------------------------------------------------------------- specification
Init ==
  /\ datasets = <<>>
  /\ data_rows = <<>>
  /\ nextId = 1
  /\ nextRow = 1
  /\ now = 1
  /\ last = NoCall
  /\ prev = Summary(NoCall)
  /\ query = NoQuery
  /\ inflight = NoneInFlight

Save ==
  /\ last.seq < MaxSaves
  /\ \E inp \in Requests : SaveImportWithRows(inp, "none")
  /\ query' = NoQuery
  /\ UNCHANGED inflight

Next == Save

Spec == Init /\ [][Next]_vars

\* the same saves when one storage operation of a save may fail: the
\* find_one or the update_one of update_record, the insert_one or the
\* find_one of insert_record, the delete_many or the inserts of insert_many
FailRequests ==
  {Request(<<"a", 0>>, Meta1, d, pk, NoStr, append, <<P(1, 2), P(2, 1)>>) :
     d \in {NoStr, Some(BadStr)} \cup {Some(HexStr(k)) : k \in DatasetIds},
     pk \in PkArgs, append \in BOOLEAN}

SaveFailing ==
  /\ last.seq < MaxFailSaves
  /\ \E inp \in FailRequests, f \in FailPoints \ {"none"} : SaveImportWithRows(inp, f)
  /\ query' = NoQuery
  /\ UNCHANGED inflight

SaveSound ==
  /\ last.seq < MaxFailSaves
  /\ \E inp \in Requests : SaveImportWithRows(inp, "none")
  /\ query' = NoQuery
  /\ UNCHANGED inflight

NextFail == SaveSound \/ SaveFailing

SpecFail == Init /\ [][NextFail]_vars

\* ---------------------------------------------------------------- options.rs: query parameters
\* the environment variable LISTING_LIMIT: unset, not a u64, or a u64
EnvValues == {None(0), Some([ok |-> FALSE, n |-> 0])}
               \cup {Some([ok |-> TRUE, n |-> n]) : n \in {0, 50, 100, 10000, 20000}}
\* start and limit of QueryFilterParams (Option<u64>)
StartArgs == {None(0), Some(0), Some(5)}
LimitArgs == {None(0)} \cup {Some(n) : n \in {0, 1, 99, 100, 101, 9999, 10000, 10001, 1000000}}

DefaultListingLimit == 10000
DefaultLimit == 100

\* listing_limit: LISTING_LIMIT when it is set and parses as u64
ListingLimit(env) ==
  IF env.some /\ env.val.ok THEN env.val.n ELSE DefaultListingLimit

\* to_pagination without the comparison with the maximum
ToPaginationNoClamp(start, limit, env) ==
  [start |-> IF start.some THEN start.val ELSE 0,
   limit |-> IF limit.some THEN limit.val ELSE DefaultLimit]

\* QueryFilterParams::to_pagination
ToPagination(start, limit, env) ==
  LET Clamp(l, max) == IF l > max THEN max ELSE l
  IN [start |-> IF start.some THEN start.val ELSE 0,
      limit |-> Clamp(IF limit.some THEN limit.val ELSE DefaultLimit, ListingLimit(env))]

CallToPagination ==
  /\ query = NoQuery
  /\ \E start \in StartArgs, limit \in LimitArgs, env \in EnvValues :
       query' = [op |-> "to_pagination", start |-> start, limit |-> limit, env |-> env,
                 result |-> ToPagination(start, limit, env)]
  /\ UNCHANGED <<datasets, data_rows, nextId, nextRow, now, last, prev, inflight>>

\* ---------------------------------------------------------------- options.rs: casting
\* A raw value of a filter is its text with what the library functions and
\* the standard parsers say of it: is_numeric (simple_string_patterns),
\* str::parse::<i64> and ::<f64>, is_datetime_like and
\* iso_fuzzy_string_to_datetime (fuzzy_datetime), is_truthy_core
Raw(text, is_numeric, i64, f64, datetime_like, datetime, truthy) ==
  [text |-> text, is_numeric |-> is_numeric, i64 |-> i64, f64 |-> f64,
   datetime_like |-> datetime_like, datetime |-> datetime, truthy |-> truthy]
NoNum == None(0)
NoFloat == None("")
NoDate == None("")
NoBool == None(FALSE)
RawValues ==
  { Raw("10", TRUE, Some(10), Some("10.0"), FALSE, NoDate, NoBool),
    Raw("1", TRUE, Some(1), Some("1.0"), FALSE, NoDate, Some(TRUE)),
    Raw("-3", TRUE, Some(-3), Some("-3.0"), FALSE, NoDate, NoBool),
    Raw("10.5", TRUE, NoNum, Some("10.5"), FALSE, NoDate, NoBool),
    Raw("true", FALSE, NoNum, NoFloat, FALSE, NoDate, Some(TRUE)),
    Raw("no", FALSE, NoNum, NoFloat, FALSE, NoDate, Some(FALSE)),
    Raw("2024-01-01", FALSE, NoNum, NoFloat, TRUE, Some("2024-01-01T00:00:00"), NoBool),
    Raw("2024-03-01T12:30:00", FALSE, NoNum, NoFloat, TRUE, Some("2024-03-01T12:30:00"),
        NoBool),
    Raw("2024-13-45", FALSE, NoNum, NoFloat, TRUE, NoDate, NoBool),
    Raw("hello", FALSE, NoNum, NoFloat, FALSE, NoDate, NoBool) }

CastDataTypes == {"String", "Float", "Integer", "Date", "DateTime", "Boolean"}
\* CastDataType::is_numeric, ::is_integer
DtIsNumeric(dt) == dt \in {"Float", "Integer"}
DtIsInteger(dt) == dt = "Integer"
ComparisonOps == {"$eq", "$ne", "$gt", "$gte", "$lt", "$lte"}

\* the document {op: value} with the BSON type of the value
Comparison(op, type, val) == [op |-> op, type |-> type, val |-> val]

\* cast_to_comparison: the three arms of the if / else if / else, each of
\* which either returns or leaves the chain for the last line
CastToComparison(op, value, dt) ==
  IF value.is_numeric \/ DtIsNumeric(dt)
    THEN IF DtIsInteger(dt)
           THEN IF value.i64.some THEN Comparison(op, "i64", value.i64.val)
                ELSE Comparison(op, "string", value.text)
           ELSE IF value.f64.some THEN Comparison(op, "f64", value.f64.val)
                ELSE Comparison(op, "string", value.text)
  ELSE IF value.datetime_like
    THEN IF value.datetime.some THEN Comparison(op, "datetime", value.datetime.val)
         ELSE Comparison(op, "string", value.text)
  ELSE IF value.truthy.some THEN Comparison(op, "bool", value.truthy.val)
  ELSE Comparison(op, "string", value.text)

CallCastToComparison ==
  /\ query = NoQuery
  /\ \E op \in ComparisonOps, value \in RawValues, dt \in CastDataTypes :
       query' = [op |-> "cast_to_comparison", operator |-> op, value |-> value, dt |-> dt,
                 result |-> CastToComparison(op, value, dt)]
  /\ UNCHANGED <<datasets, data_rows, nextId, nextRow, now, last, prev, inflight>>

\* ---------------------------------------------------------------- options.rs: strings
\* A text whose characters matter is the sequence of its characters.
Digits == {"0", "1", "2", "3", "4", "5", "6", "7", "8", "9"}
DigitVal(c) ==
  CASE c = "0" -> 0 [] c = "1" -> 1 [] c = "2" -> 2 [] c = "3" -> 3 [] c = "4" -> 4
    [] c = "5" -> 5 [] c = "6" -> 6 [] c = "7" -> 7 [] c = "8" -> 8 [] c = "9" -> 9

\* str::to_lowercase, on the letters the keys use
LowerChar(c) ==
  CASE c = "A" -> "a" [] c = "C" -> "c" [] c = "D" -> "d" [] c = "E" -> "e"
    [] c = "N" -> "n" [] c = "O" -> "o" [] c = "S" -> "s" [] c = "W" -> "w"
    [] OTHER -> c
ToLowercase(str) == [i \in 1..Len(str) |-> LowerChar(str[i])]

\* str::trim
Trim(str) ==
  LET solid == {i \in 1..Len(str) : str[i] # " "}
  IN IF solid = {} THEN <<>>
     ELSE SubSeq(str, CHOOSE i \in solid : \A j \in solid : i <= j,
                      CHOOSE i \in solid : \A j \in solid : j <= i)

\* str::starts_with
StartsWith(str, prefix) ==
  Len(str) >= Len(prefix) /\ SubSeq(str, 1, Len(prefix)) = prefix

\* str::replace(char, &str)
Replace(str, c, with) ==
  LET out[i \in 0..Len(str)] ==
        IF i = 0 THEN <<>>
        ELSE out[i - 1] \o (IF str[i] = c THEN with ELSE <<str[i]>>)
  IN out[Len(str)]

\* IsNumeric::is_numeric (simple_string_patterns): digits with at most one
\* decimal point after an optional minus sign
IsNumeric(str) ==
  LET body == IF Len(str) > 0 /\ str[1] = "-" THEN SubSeq(str, 2, Len(str)) ELSE str
  IN /\ \E i \in 1..Len(body) : body[i] \in Digits
     /\ \A i \in 1..Len(body) : body[i] \in Digits \cup {"."}
     /\ Cardinality({i \in 1..Len(body) : body[i] = "."}) <= 1

I32Max == 2147483647

\* str::parse::<i32>: an optional sign, then decimal digits only, the value
\* within -I32Max - 1 .. I32Max; acc is the value of the digits read so far,
\* negative after a minus sign, as long as it is in range
ParseI32(str) ==
  LET signed == Len(str) > 0 /\ str[1] \in {"-", "+"}
      minus == signed /\ str[1] = "-"
      body == IF signed THEN SubSeq(str, 2, Len(str)) ELSE str
      Push(a, d) ==
        IF ~a.ok THEN a
        ELSE IF minus
          THEN IF a.v < -(I32Max \div 10) \/ (a.v = -(I32Max \div 10) /\ d > 8)
                 THEN [ok |-> FALSE, v |-> 0]
                 ELSE [ok |-> TRUE, v |-> 10 * a.v - d]
        ELSE IF a.v > I32Max \div 10 \/ (a.v = I32Max \div 10 /\ d > 7)
          THEN [ok |-> FALSE, v |-> 0]
        ELSE [ok |-> TRUE, v |-> 10 * a.v + d]
      acc[i \in 0..Len(body)] ==
        IF i = 0 THEN [ok |-> TRUE, v |-> 0] ELSE Push(acc[i - 1], DigitVal(body[i]))
  IN IF Len(body) = 0 \/ \E i \in 1..Len(body) : body[i] \notin Digits
       THEN None(0)
     ELSE IF ~acc[Len(body)].ok THEN None(0)
     ELSE Some(acc[Len(body)].v)

\* ---------------------------------------------------------------- options.rs: sort direction
SortKeys ==
  { <<"a", "s", "c">>, <<"d", "e", "s", "c">>, <<"D", "E", "S", "C">>,
    <<" ", "d", "e", "s", "c", " ">>, <<"A", "s", "c">>, <<"-", "1">>, <<"1">>,
    <<"0">>, <<"-", "0">>, <<"-", "5">>, <<"-", "1", ".", "5">>, <<"1", ".", "5">>,
    <<"-">>, <<"-", "9", "9", "9", "9", "9", "9", "9", "9", "9", "9", "9">>,
    <<"d", "o", "w", "n", "w", "a", "r", "d">>, <<"D", "o", "w", "n">>,
    <<"d", "s", "c">>, <<"d", "s", "c", "1">>,
    <<"d", "e", "s", "c", "e", "n", "d", "i", "n", "g">>, <<"d", "e", "s">>,
    <<"x", "y", "z">>, <<>>, <<"d">>, <<"u", "p">>, <<"+", "1">>, <<"-", "x">> }

\* match_sort_direction
MatchSortDirection(key) ==
  LET Dir(dir_key) ==
        IF dir_key = <<"a", "s", "c">> THEN 1
        ELSE IF dir_key = <<"d", "e", "s", "c">> THEN -1
        ELSE IF IsNumeric(dir_key)
          THEN IF ParseI32(dir_key).some
                 THEN IF ParseI32(dir_key).val < 0 THEN -1 ELSE 1
                 ELSE 1
        ELSE IF \/ StartsWith(dir_key, <<"d", "e", "s", "c">>)
                \/ StartsWith(dir_key, <<"d", "o", "w", "n">>)
                \/ StartsWith(dir_key, <<"d", "s", "c">>)
          THEN -1
        ELSE 1
  IN Dir(ToLowercase(Trim(key)))

CallMatchSortDirection ==
  /\ query = NoQuery
  /\ \E key \in SortKeys :
       query' = [op |-> "match_sort_direction", key |-> key,
                 result |-> MatchSortDirection(key)]
  /\ UNCHANGED <<datasets, data_rows, nextId, nextRow, now, last, prev, inflight>>

\* ---------------------------------------------------------------- options.rs: like
MaxLikeLen == 3
LikeChars == {"a", "b", ".", "?", "%"}
LikeInputs ==
  UNION {[1..n -> LikeChars] : n \in 0..MaxLikeLen}
  \cup { <<"5", "0", "%">>, <<"a", ".", "b">>, <<"a", "?", "b">>, <<"%", "a">>,
    <<"a", "%", "b">> }

\* field values a pattern is matched against
MaxValueLen == 3
ValueChars == {"a", "b", "x", ".", "?"}
LikeValues ==
  UNION {[1..n -> ValueChars] : n \in 0..MaxValueLen}
  \cup { <<"5", "0">>, <<"5", "0", "1">>, <<"5">>, <<"a", "5", "0">>, <<"a", ".", "b">>,
    <<"a", "x", "b">>, <<"a", "x", ".", "b">>, <<"a", "?", "b">>, <<"a", "b">>,
    <<"a", ".", ".", "b">> }

\* str_to_like_pattern
StrToLikePattern(value) ==
  <<"^", "\\", "s", "*">>
    \o Trim(Replace(Replace(Replace(value, ".", <<".", "\\", ".">>),
                            "?", <<".", "\\", "?">>),
                    "%", <<".", "*", "?">>))
    \o <<"\\", "s", "*", "$">>

\* The items of a regular expression as the server reads the pattern: the
\* anchors, \s*, an escaped character (a literal), .*? and .* (a run of any
\* characters), . (any one character), and any other character (a literal)
RegexItems(pattern) ==
  LET n == Len(pattern)
      At(i) == IF i <= n THEN pattern[i] ELSE ""
      items[i \in 1..(n + 1)] ==
        IF i > n THEN <<>>
        ELSE IF At(i) = "^" THEN <<[kind |-> "start", c |-> ""]>> \o items[i + 1]
        ELSE IF At(i) = "$" THEN <<[kind |-> "end", c |-> ""]>> \o items[i + 1]
        ELSE IF At(i) = "\\" /\ At(i + 1) = "s" /\ At(i + 2) = "*"
          THEN <<[kind |-> "spaces", c |-> ""]>> \o items[i + 3]
        ELSE IF At(i) = "\\" /\ i < n
          THEN <<[kind |-> "literal", c |-> At(i + 1)]>> \o items[i + 2]
        ELSE IF At(i) = "." /\ At(i + 1) = "*" /\ At(i + 2) = "?"
          THEN <<[kind |-> "run", c |-> ""]>> \o items[i + 3]
        ELSE IF At(i) = "." /\ At(i + 1) = "*"
          THEN <<[kind |-> "run", c |-> ""]>> \o items[i + 2]
        ELSE IF At(i) = "." THEN <<[kind |-> "any", c |-> ""]>> \o items[i + 1]
        ELSE <<[kind |-> "literal", c |-> At(i)]>> \o items[i + 1]
  IN items[1]

\* {field: {$regex: pattern}} on a string value: some part of the value
\* matches; with the anchors of str_to_like_pattern, the whole value
RegexMatches(pattern, value) ==
  LET its == RegexItems(pattern)
      n == Len(its)
      m == Len(value)
      ok[i \in 1..(n + 1), j \in 1..(m + 1)] ==
        IF i > n THEN TRUE
        ELSE IF its[i].kind = "start" THEN j = 1 /\ ok[i + 1, j]
        ELSE IF its[i].kind = "end" THEN j = m + 1 /\ ok[i + 1, j]
        ELSE IF its[i].kind = "spaces"
          THEN ok[i + 1, j] \/ (j <= m /\ value[j] = " " /\ ok[i, j + 1])
        ELSE IF its[i].kind = "run"
          THEN ok[i + 1, j] \/ (j <= m /\ ok[i, j + 1])
        ELSE IF its[i].kind = "any" THEN j <= m /\ ok[i + 1, j + 1]
        ELSE j <= m /\ value[j] = its[i].c /\ ok[i + 1, j + 1]
  IN \E j \in 1..(m + 1) : ok[1, j]

CallStrToLikePattern ==
  /\ query = NoQuery
  /\ \E value \in LikeInputs :
       query' = [op |-> "str_to_like_pattern", value |-> value,
                 result |-> StrToLikePattern(value)]
  /\ UNCHANGED <<datasets, data_rows, nextId, nextRow, now, last, prev, inflight>>

\* ---------------------------------------------------------------- db.rs: timestamps
\* A payload string of the form YYYY-MM-DDTHH:MM:SS.sssZ is the record of
\* its seven numbers (each field has a fixed width, so two such strings are
\* equal exactly when their records are).
Stamp(y, mo, d, h, mi, s, ms) ==
  [y |-> y, mo |-> mo, d |-> d, h |-> h, mi |-> mi, s |-> s, ms |-> ms]
StampYears == {1969, 1970, 2016, 2024}
StampDates == {<<1, 1>>, <<2, 28>>, <<2, 29>>, <<2, 30>>, <<12, 31>>}
StampTimes == {<<0, 0>>, <<12, 30>>, <<23, 59>>, <<24, 0>>}
StampSeconds == {0, 59, 60}
StampMillis == {0, 123, 999}
Stamps ==
  {Stamp(y, md[1], md[2], hm[1], hm[2], sec, ms) :
     y \in StampYears, md \in StampDates, hm \in StampTimes,
     sec \in StampSeconds, ms \in StampMillis}

MsPerDay == 86400000

IsLeapYear(y) == (y % 4 = 0 /\ y % 100 # 0) \/ y % 400 = 0
DaysInMonth(y, mo) ==
  IF mo = 2 THEN (IF IsLeapYear(y) THEN 29 ELSE 28)
  ELSE IF mo \in {4, 6, 9, 11} THEN 30 ELSE 31

\* days from 1970-01-01 to a date of the proleptic Gregorian calendar
DaysFromCivil(y, mo, d) ==
  LET yy == IF mo <= 2 THEN y - 1 ELSE y
      era == yy \div 400
      yoe == yy - era * 400
      doy == (153 * (IF mo > 2 THEN mo - 3 ELSE mo + 9) + 2) \div 5 + d - 1
      doe == yoe * 365 + yoe \div 4 - yoe \div 100 + doy
  IN era * 146097 + doe - 719468

\* the date that many days after 1970-01-01
CivilFromDays(days) ==
  LET z == days + 719468
      era == z \div 146097
      doe == z - era * 146097
      yoe == (doe - doe \div 1460 + doe \div 36524 - doe \div 146096) \div 365
      doy == doe - (365 * yoe + yoe \div 4 - yoe \div 100)
      mp == (5 * doy + 2) \div 153
      mo == IF mp < 10 THEN mp + 3 ELSE mp - 9
  IN [y |-> yoe + era * 400 + (IF mo <= 2 THEN 1 ELSE 0), mo |-> mo,
      d |-> doy - (153 * mp + 2) \div 5 + 1]

\* NaiveDateTime::parse_from_str(date_str, "%Y-%m-%dT%H:%M:%S%.fZ"): Err for
\* a date or a time that does not exist; a second of 60 is read as a leap
\* second, kept as second 59 with 1000 more milliseconds
ParseNaiveDateTime(str) ==
  IF /\ str.mo \in 1..12 /\ str.d \in 1..DaysInMonth(str.y, str.mo)
     /\ str.h \in 0..23 /\ str.mi \in 0..59 /\ str.s \in 0..60
    THEN Some([y |-> str.y, mo |-> str.mo, d |-> str.d, h |-> str.h, mi |-> str.mi,
               s |-> IF str.s = 60 THEN 59 ELSE str.s,
               frac |-> IF str.s = 60 THEN 1000 + str.ms ELSE str.ms])
    ELSE None(Stamp(0, 0, 0, 0, 0, 0, 0))

\* Bson::DateTime from chrono: timestamp_millis(), the seconds since the
\* epoch times 1000 plus the milliseconds of the fraction. The number of
\* milliseconds is kept as whole days and milliseconds of the day.
ToBsonDateTime(t) ==
  LET ms_of_day == ((t.h * 60 + t.mi) * 60 + t.s) * 1000 + t.frac
  IN [day |-> DaysFromCivil(t.y, t.mo, t.d) + ms_of_day \div MsPerDay,
      ms |-> ms_of_day % MsPerDay]

\* convert_datetime_strings on one string value of the document
ConvertDatetimeString(str) ==
  IF ParseNaiveDateTime(str).some
    THEN [bson |-> "datetime", val |-> ToBsonDateTime(ParseNaiveDateTime(str).val)]
    ELSE [bson |-> "string", val |-> str]

\* bson_to_json: a DateTime formatted with "%Y-%m-%dT%H:%M:%S%.3fZ", a
\* string as it is
BsonToJson(b) ==
  IF b.bson = "datetime"
    THEN LET date == CivilFromDays(b.val.day)
             sec == b.val.ms \div 1000
         IN Stamp(date.y, date.mo, date.d, sec \div 3600, (sec \div 60) % 60, sec % 60,
                  b.val.ms % 1000)
    ELSE b.val

\* a string value written by save_rows and read back by fetch_dataset
CallRoundTrip ==
  /\ query = NoQuery
  /\ \E str \in Stamps :
       query' = [op |-> "round_trip", value |-> str,
                 stored |-> ConvertDatetimeString(str),
                 result |-> BsonToJson(ConvertDatetimeString(str))]
  /\ UNCHANGED <<datasets, data_rows, nextId, nextRow, now, last, prev, inflight>>

\* a row payload with a string at the top level, one inside a nested
\* document and one inside an array; each string is a timestamp or the
\* text of a date that does not exist
BsonString(str) == [bson |-> "string", val |-> str]
PayloadStrings == {Stamp(2024, 1, 1, 12, 30, 0, 123), Stamp(2024, 2, 30, 12, 30, 0, 123)}
Payloads ==
  {[when |-> BsonString(a),
    nested |-> [bson |-> "document", val |-> [when |-> BsonString(b)]],
    list |-> [bson |-> "array", val |-> <<BsonString(c)>>]] :
     a \in PayloadStrings, b \in PayloadStrings, c \in PayloadStrings}

\* convert_datetime_strings: the loop over the entries of doc, which looks
\* at the values that are strings
ConvertDatetimeStrings(doc) ==
  [key \in DOMAIN doc |->
     IF doc[key].bson = "string" THEN ConvertDatetimeString(doc[key].val) ELSE doc[key]]

\* save_rows, lines 433-434, on one row
CallConvertDatetimeStrings ==
  /\ query = NoQuery
  /\ \E doc \in Payloads :
       query' = [op |-> "convert_datetime_strings", doc |-> doc,
                 result |-> ConvertDatetimeStrings(doc)]
  /\ UNCHANGED <<datasets, data_rows, nextId, nextRow, now, last, prev, inflight>>

\* ---------------------------------------------------------------- db.rs: reading
\* the filter of a request, {"data.<field>": {"$eq": val}}, if any
NoFilter == None([field |-> "", val |-> 0])
FilterArgs == {NoFilter, Some([field |-> "v", val |-> 1])}
\* (limit, skip) of a request
PageArgs == {<<0, 0>>, <<1, 0>>, <<2, 1>>}
\* find_records_with_total, line 120: the limit given to the server
FindAllLimit == 10000000

\* fetch_dataset, lines 199-212: the criteria on data_rows
RowCriteria(id, import_id_opt, filter_options) ==
  [dataset_id |-> id,
   import_id |-> IF import_id_opt.some /\ ObjectIdFromStr(import_id_opt.val).ok
                   THEN Some(ObjectIdFromStr(import_id_opt.val).oid) ELSE NoOid,
   filter |-> filter_options]

RowMatches(r, criteria) ==
  /\ r.dataset_id = criteria.dataset_id
  /\ criteria.import_id.some => r.import_id = criteria.import_id.val
  /\ criteria.filter.some
       => /\ ContainsKey(r.data, criteria.filter.val.field)
          /\ r.data[criteria.filter.val.field] = criteria.filter.val.val

\* find_records_with_total with add_total: the documents that match, in
\* natural order, after skip and up to limit (all of them for limit 0), and
\* count_documents with the same filter
FindRecordsWithTotal(coll, limit, skip, criteria) ==
  LET Hit(r) == RowMatches(r, criteria)
      Page(hits, max) ==
        [total |-> Some(Len(hits)),
         rows |-> SubSeq(hits, skip + 1, IF skip + max < Len(hits) THEN skip + max
                                         ELSE Len(hits))]
  IN Page(SelectSeq(coll, Hit), IF limit > 0 THEN limit ELSE FindAllLimit)

\* RowSet::new
RowSetNew(dset, rows, total, limit, skip) ==
  [dataset |-> dset, rows |-> rows, total |-> total, limit |-> limit, skip |-> skip]
NoRowSet == None(RowSetNew(<<>>, <<>>, 0, 0, 0))

\* fetch_dataset that reads the rows without looking for the dataset
FetchDatasetUnchecked(dsets, rows, dataset_id, import_id_opt, filter_options, limit, skip) ==
  LET Found(found) ==
        [queried |-> TRUE,
         result |-> Some(RowSetNew(<<>>, [i \in 1..Len(found.rows) |-> found.rows[i].data],
                                   found.total.val, limit, skip))]
  IN Found(FindRecordsWithTotal(rows, limit, skip,
                                RowCriteria(ObjectIdFromStr(dataset_id).oid, import_id_opt,
                                            filter_options)))

\* DB::fetch_dataset; queried tells whether data_rows was read
FetchDatasetResult(dsets, rows, dataset_id, import_id_opt, filter_options, limit, skip) ==
  LET Found(dset, found) ==
        [queried |-> TRUE,
         result |-> Some(RowSetNew(dset, [i \in 1..Len(found.rows) |-> found.rows[i].data],
                                   IF found.total.some THEN found.total.val
                                   ELSE Len(found.rows),
                                   limit, skip))]
      Lookup(id, idx) ==
        IF idx = 0
          THEN [queried |-> FALSE, result |-> NoRowSet]
          ELSE Found(dsets[idx],
                     FindRecordsWithTotal(rows, limit, skip,
                                          RowCriteria(id, import_id_opt, filter_options)))
  IN IF ObjectIdFromStr(dataset_id).ok
       THEN Lookup(ObjectIdFromStr(dataset_id).oid,
                   FindOne(dsets, [by |-> "id", name |-> "", sheet_index |-> 0,
                                   id |-> Some(ObjectIdFromStr(dataset_id).oid)]))
       ELSE [queried |-> FALSE, result |-> NoRowSet]

\* identifier strings a reader may send: malformed, well formed and of no
\* dataset (0, or the identifier of an import), or of a dataset
FetchIdArgs ==
  {BadStr, HexStr(0)} \cup {HexStr(d) : d \in DatasetIds \cup ImportIdsOf(1..Len(datasets))}
FetchImportArgs == {NoStr, Some(BadStr)} \cup ReturnedImportIdArgs

FetchDataset ==
  /\ query = NoQuery
  /\ \E dataset_id \in FetchIdArgs, import_id_opt \in FetchImportArgs,
        filter_options \in FilterArgs, page \in PageArgs :
       query' = [op |-> "fetch_dataset", dataset_id |-> dataset_id,
                 import_id |-> import_id_opt, filter |-> filter_options,
                 limit |-> page[1], skip |-> page[2]]
                @@ FetchDatasetResult(datasets, data_rows, dataset_id, import_id_opt,
                                      filter_options, page[1], page[2])
  /\ UNCHANGED <<datasets, data_rows, nextId, nextRow, now, last, prev, inflight>>

\* the query of a get_dataset request: start, limit and LISTING_LIMIT
RouteStartArgs == {None(0), Some(1)}
RouteLimitArgs == {None(0), Some(0), Some(1), Some(1000000)}
RouteEnvValues == {None(0), Some([ok |-> TRUE, n |-> 1])}

\* routes.rs get_dataset: to_pagination, then fetch_dataset with no import
\* id; the request has no f, v or sort, so there is no filter and no sort
GetDataset ==
  /\ query = NoQuery
  /\ \E id \in FetchIdArgs, start \in RouteStartArgs, limit \in RouteLimitArgs,
        env \in RouteEnvValues :
       query' = [op |-> "get_dataset", id |-> id, start |-> start, limit |-> limit,
                 env |-> env]
                @@ FetchDatasetResult(datasets, data_rows, id, NoStr, NoFilter,
                                      ToPagination(start, limit, env).limit,
                                      ToPagination(start, limit, env).start)
  /\ UNCHANGED <<datasets, data_rows, nextId, nextRow, now, last, prev, inflight>>

NextRoute == SaveSound \/ GetDataset

SpecRoute == Init /\ [][NextRoute]_vars

NextRead == SaveSound \/ FetchDataset

SpecRead == Init /\ [][NextRead]_vars

\* the functions of options.rs and the conversions of db.rs, on their own
NextQuery ==
  \/ CallToPagination
  \/ CallCastToComparison
  \/ CallMatchSortDirection
  \/ CallStrToLikePattern
  \/ CallRoundTrip
  \/ CallConvertDatetimeStrings

SpecQuery == Init /\ [][NextQuery]_vars

\* ---------------------------------------------------------------- concurrent handlers
\* Handlers are futures on one runtime; the client mutex is held only while
\* get_collection runs, so between two storage operations of one call the
\* operations of other calls can run. The steps of a save: save_import
\* (taken as one step), the delete_by_id of insert_many, the insert of
\* insert_many. The steps of a fetch: the find_one of the dataset, the find
\* of the rows, count_documents.
ConcBatch1 == <<P(1, 1)>>
ConcBatch2 == <<P(1, 2), P(2, 1)>>
ConcRequests ==
  {Request(<<"a", 0>>, Meta1, NoStr, NoPk, i, append, rows) :
     i \in {NoStr} \cup KnownImportIdArgs, append \in BOOLEAN,
     rows \in {ConcBatch1, ConcBatch2}}
ConcPageArgs == {<<0, 0>>, <<1, 0>>}

SetSave(p, rec) == [inflight EXCEPT !.saves[p] = rec]

\* save_import_with_rows up to the return of save_import
BeginSave(p) ==
  /\ inflight.saves[p].pc \in {"idle", "done", "stopped"}
  /\ now <= MaxConcSaves
  /\ \E inp \in ConcRequests :
       LET Resolved(s, mode) ==
             /\ datasets' = s.coll
             /\ nextId' = s.nextId
             /\ inflight' =
                  SetSave(p, IF s.res.some
                               THEN [pc |-> "resolved", inp |-> inp,
                                     dataset_id |-> s.res.val[1],
                                     import_id |-> s.res.val[2], mode |-> mode,
                                     path |-> s.path, count |-> 0]
                               ELSE [IdleSave EXCEPT !.pc = "done", !.inp = inp])
       IN Resolved(SaveImport(datasets, inp,
                              IF inp.import_id.some
                                THEN Some(ObjectIdFromStr(inp.import_id.val).oid)
                                ELSE NoOid,
                              nextId, now, "none"),
                   ReplaceModeNew(inp.append, inp.import_id.some))
  /\ now' = now + 1
  /\ UNCHANGED <<data_rows, nextRow, last, prev, query>>

\* the delete key of the call in flight
ScopeOf(sv) == DeleteKeyRefs(sv.mode, sv.dataset_id, sv.import_id)

\* insert_many, lines 315-322
DeleteScope(p) ==
  /\ inflight.saves[p].pc = "resolved"
  /\ ScopeOf(inflight.saves[p]).some
  /\ data_rows' = DeleteById(data_rows, ScopeOf(inflight.saves[p]).val[1],
                             ScopeOf(inflight.saves[p]).val[2])
  /\ inflight' = SetSave(p, [inflight.saves[p] EXCEPT !.pc = "deleted"])
  /\ UNCHANGED <<datasets, nextId, nextRow, now, last, prev, query>>

\* insert_many, lines 323-344, and the return of save_import_with_rows
InsertRows(p) ==
  /\ \/ inflight.saves[p].pc = "deleted"
     \/ inflight.saves[p].pc = "resolved" /\ ~ScopeOf(inflight.saves[p]).some
  /\ LET sv == inflight.saves[p]
         Inserted(w, count) ==
           /\ data_rows' = w.coll
           /\ nextRow' = w.nextRow
           /\ inflight' = SetSave(p, [sv EXCEPT !.pc = "done", !.count = count])
           /\ last' = [NoCall EXCEPT !.seq = last.seq + 1, !.inp = sv.inp,
                                     !.outcome = "ok",
                                     !.dataset_id = ObjectIdToString(sv.dataset_id),
                                     !.import_id = ObjectIdToString(sv.import_id),
                                     !.count = count, !.mode = sv.mode, !.path = sv.path]
         Counted(w) == Inserted(w, IF w.ids.some THEN w.ids.val ELSE 0)
     IN Counted(InsertMany(data_rows, RowDocs(sv.inp.rows, sv.dataset_id, sv.import_id),
                           sv.inp.data_pk, None(<<"", 0>>), nextRow, "none"))
  /\ prev' = Summary(last)
  /\ UNCHANGED <<datasets, nextId, now, query>>

\* the handler ends between the delete and the insert (the process is
\* stopped, or the request is dropped)
StopSave(p) ==
  /\ inflight.saves[p].pc = "deleted"
  /\ inflight' = SetSave(p, [inflight.saves[p] EXCEPT !.pc = "stopped"])
  /\ UNCHANGED <<datasets, data_rows, nextId, nextRow, now, last, prev, query>>

\* fetch_dataset, lines 194-197
FetchLookup ==
  /\ inflight.fetch.pc = "idle"
  /\ \E d \in DatasetIds, page \in ConcPageArgs :
       inflight' = [inflight EXCEPT !.fetch =
                      [IdleFetch EXCEPT !.pc = "found", !.dataset_id = HexStr(d),
                                        !.limit = page[1], !.skip = page[2], !.dset = d]]
  /\ UNCHANGED <<datasets, data_rows, nextId, nextRow, now, last, prev, query>>

\* find_records_with_total, lines 130-167
FetchFind ==
  /\ inflight.fetch.pc = "found"
  /\ inflight' =
       [inflight EXCEPT !.fetch.pc = "read",
                        !.fetch.rows =
                          FindRecordsWithTotal(data_rows, inflight.fetch.limit,
                                               inflight.fetch.skip,
                                               RowCriteria(inflight.fetch.dset, NoStr,
                                                           NoFilter)).rows]
  /\ UNCHANGED <<datasets, data_rows, nextId, nextRow, now, last, prev, query>>

\* find_records_with_total, lines 168-171, and RowSet::new
FetchCount ==
  /\ inflight.fetch.pc = "read"
  /\ inflight' =
       [inflight EXCEPT !.fetch.pc = "done",
                        !.fetch.total =
                          FindRecordsWithTotal(data_rows, inflight.fetch.limit,
                                               inflight.fetch.skip,
                                               RowCriteria(inflight.fetch.dset, NoStr,
                                                           NoFilter)).total.val]
  /\ UNCHANGED <<datasets, data_rows, nextId, nextRow, now, last, prev, query>>

NextConc ==
  \/ \E p \in Procs : BeginSave(p)
  \/ \E p \in Procs : DeleteScope(p)
  \/ \E p \in Procs : InsertRows(p)
  \/ \E p \in Procs : StopSave(p)
  \/ FetchLookup
  \/ FetchFind
  \/ FetchCount

SpecConc == Init /\ [][NextConc]_vars

\* ---------------------------------------------------------------- reading the state
Oid(str) == ObjectIdFromStr(str).oid
Ids(coll) == {coll[i]._id : i \in 1..Len(coll)}
RowsWhere(coll, field_name, id) ==
  LET Is(r) == r[field_name] = id
  IN SelectSeq(coll, Is)
HasDataset(coll, id) == \E i \in 1..Len(coll) : coll[i]._id = id
DatasetById(coll, id) == coll[CHOOSE i \in 1..Len(coll) : coll[i]._id = id]
ImportIdsIn(d) == {d.imports[j]._id : j \in 1..Len(d.imports)}

\* the step is a call of save_import_with_rows that returned identifiers
SavedOk == last'.seq = last.seq + 1 /\ last'.outcome = "ok"
\* ... and resolved to a dataset that was there before the call
SavedOnExisting == SavedOk /\ last'.path = "updated"

\* ---------------------------------------------------------------- claims
\* C1: a ReplaceAll save (append = false, no import id) of R1 followed by a
\* ReplaceAll save of R2 that resolves to the same dataset leaves exactly
\* len(R2) rows with that dataset_id, none of them a row that was stored
\* after the R1 save.
C1_ReplaceAllTwice ==
  [][ ( /\ last.outcome = "ok" /\ ~last.inp.append /\ ~last.inp.import_id.some
        /\ SavedOk /\ ~last'.inp.append /\ ~last'.inp.import_id.some
        /\ last'.dataset_id = last.dataset_id )
      => LET after == RowsWhere(data_rows', "dataset_id", Oid(last'.dataset_id))
         IN /\ Len(after) = Len(last'.inp.rows)
            /\ Ids(after) \cap Ids(data_rows) = {} ]_vars

C1_Witness ==
  /\ prev.outcome = "ok" /\ prev.mode = "ReplaceAll" /\ prev.count > 0
  /\ last.outcome = "ok" /\ ~last.inp.append /\ ~last.inp.import_id.some
  /\ last.dataset_id = prev.dataset_id
  /\ Len(last.inp.rows) = 2
  /\ Len(RowsWhere(data_rows, "dataset_id", Oid(last.dataset_id))) = 2

\* C2: two consecutive saves with the same (name, sheet_index) and neither a
\* dataset id nor an import id return the same dataset identifier, and the
\* second appends one import entry after the entries left by the first: two
\* entries, the first save's import first, when the first save created the
\* dataset.
C2_SamePairSameDataset ==
  [][ ( /\ last.outcome = "ok" /\ ~last.inp.dataset_id.some /\ ~last.inp.import_id.some
        /\ SavedOk /\ ~last'.inp.dataset_id.some /\ ~last'.inp.import_id.some
        /\ last'.inp.filename = last.inp.filename
        /\ last'.inp.sheet_index = last.inp.sheet_index )
      => /\ last'.dataset_id = last.dataset_id
         /\ LET before == DatasetById(datasets, Oid(last.dataset_id)).imports
                after == DatasetById(datasets', Oid(last.dataset_id)).imports
            IN /\ Len(after) = Len(before) + 1
               /\ SubSeq(after, 1, Len(before)) = before
               /\ after[Len(after)]._id \notin ImportIdsIn([imports |-> before])
               /\ last.path = "inserted"
                    => Len(after) = 2 /\ after[1]._id = Oid(last.import_id) ]_vars

C2_Witness ==
  /\ prev.outcome = "ok" /\ prev.path = "inserted"
  /\ ~prev.has_dataset_id /\ ~prev.has_import_id
  /\ last.outcome = "ok" /\ ~last.inp.dataset_id.some /\ ~last.inp.import_id.some
  /\ last.inp.filename = prev.filename /\ last.inp.sheet_index = prev.sheet_index
  /\ last.dataset_id = prev.dataset_id
  /\ Len(DatasetById(datasets, Oid(last.dataset_id)).imports) = 2

\* C3 (as claimed): with data_pk declared, an append save of rows whose key
\* values all equal the key value of a stored row of the dataset updates in
\* place: the number of rows of the dataset is the same before and after.
C3_PkUpdatesInPlace ==
  [][ ( /\ SavedOnExisting /\ last'.inp.append /\ last'.inp.data_pk.some
        /\ Len(last'.inp.rows) > 0
        /\ LET pk == last'.inp.data_pk.val
               stored == RowsWhere(data_rows, "dataset_id", Oid(last'.dataset_id))
           IN \A i \in 1..Len(last'.inp.rows) :
                \E j \in 1..Len(stored) : stored[j].data[pk] = last'.inp.rows[i][pk] )
      => Len(RowsWhere(data_rows', "dataset_id", Oid(last'.dataset_id)))
           = Len(RowsWhere(data_rows, "dataset_id", Oid(last'.dataset_id))) ]_vars

\* C4: an append save without data_pk of a non-empty batch onto a dataset
\* that has rows deletes no row, adds exactly len(rows) rows with that
\* dataset_id, and returns len(rows) as the row count.
C4_AppendAdds ==
  [][ ( /\ SavedOnExisting /\ last'.inp.append /\ ~last'.inp.data_pk.some
        /\ Len(last'.inp.rows) > 0
        /\ Len(RowsWhere(data_rows, "dataset_id", Oid(last'.dataset_id))) > 0 )
      => /\ SubSeq(data_rows', 1, Len(data_rows)) = data_rows
         /\ Len(RowsWhere(data_rows', "dataset_id", Oid(last'.dataset_id)))
              = Len(RowsWhere(data_rows, "dataset_id", Oid(last'.dataset_id)))
                  + Len(last'.inp.rows)
         /\ last'.count = Len(last'.inp.rows) ]_vars

C4_Witness ==
  /\ last.outcome = "ok" /\ last.path = "updated"
  /\ last.inp.append /\ ~last.inp.data_pk.some /\ Len(last.inp.rows) = 2
  /\ last.count = 2
  /\ Len(RowsWhere(data_rows, "dataset_id", Oid(last.dataset_id))) > 2

\* C5 (as claimed): a save with append = false that supplies the identifier
\* I of an import of the matched dataset removes every row stored under I,
\* so that afterwards the rows of import I are exactly the rows of this
\* save, and the rows of the dataset's other imports stay.
C5_ReplaceImportReplacesRows ==
  [][ ( /\ SavedOnExisting /\ ~last'.inp.append /\ last'.inp.import_id.some
        /\ Oid(last'.inp.import_id.val)
             \in ImportIdsIn(DatasetById(datasets, Oid(last'.dataset_id))) )
      => LET I == Oid(last'.inp.import_id.val)
             D == Oid(last'.dataset_id)
             before == RowsWhere(data_rows, "import_id", I)
             after == RowsWhere(data_rows', "import_id", I)
         IN /\ Ids(after) \cap Ids(before) = {}
            /\ Len(after) = Len(last'.inp.rows)
            /\ \A i \in 1..Len(data_rows) :
                 (data_rows[i].dataset_id = D /\ data_rows[i].import_id # I)
                   => \E j \in 1..Len(data_rows') : data_rows'[j] = data_rows[i] ]_vars

\* C6: ReplaceMode::new gives Append whenever append is true, ReplaceImport
\* exactly when append is false and an import id was supplied, ReplaceAll
\* exactly when append is false and none was supplied; and a save deletes
\* the rows with its dataset_id for ReplaceAll, the rows with its import_id
\* for ReplaceImport, and no row for Append.
C6_ReplaceModeAndDelete ==
  [][ SavedOk
      => LET D == Oid(last'.dataset_id)
             I == Oid(last'.import_id)
             deleted == Ids(data_rows) \ Ids(data_rows')
         IN /\ last'.inp.append
                 => last'.mode = "Append" /\ deleted = {}
            /\ (~last'.inp.append /\ last'.inp.import_id.some)
                 => /\ last'.mode = "ReplaceImport"
                    /\ deleted = Ids(RowsWhere(data_rows, "import_id", I))
            /\ (~last'.inp.append /\ ~last'.inp.import_id.some)
                 => /\ last'.mode = "ReplaceAll"
                    /\ deleted = Ids(RowsWhere(data_rows, "dataset_id", D)) ]_vars

\* a ReplaceImport save that deleted rows (every row ever inserted has an
\* _id below nextRow), after which the rows of other imports are still there
C6_Witness ==
  /\ last.outcome = "ok" /\ last.mode = "ReplaceImport"
  /\ ~last.inp.append /\ last.inp.import_id.some
  /\ prev.outcome = "ok" /\ prev.path = "updated" /\ prev.count > 0
  /\ prev.dataset_id = last.dataset_id
  /\ Len(data_rows) < nextRow - 1
  /\ \E i \in 1..Len(data_rows) :
       /\ data_rows[i].dataset_id = Oid(last.dataset_id)
       /\ data_rows[i].import_id # Oid(last.import_id)

\* C7 (as claimed): when a save supplies the identifier of an entry of the
\* matched dataset's imports list, that entry is replaced at its position by
\* the import record of this save (created at the time of this save); the
\* list keeps its length and its other entries.
C7_ImportReplacedInPlace ==
  [][ ( /\ SavedOnExisting /\ last'.inp.import_id.some
        /\ Oid(last'.inp.import_id.val)
             \in ImportIdsIn(DatasetById(datasets, Oid(last'.dataset_id))) )
      => LET before == DatasetById(datasets, Oid(last'.dataset_id)).imports
             after == DatasetById(datasets', Oid(last'.dataset_id)).imports
             k == CHOOSE j \in 1..Len(before) :
                    before[j]._id = Oid(last'.inp.import_id.val)
         IN /\ Len(after) = Len(before)
            /\ \A j \in 1..Len(before) : j # k => after[j] = before[j]
            /\ after[k].dt = now ]_vars

\* C8 (as claimed): for every successful save the returned import id is the
\* identity of an entry of the imports list of the returned dataset, and is
\* never the dataset's own identifier.
C8_ReturnedImportIsAnImport ==
  last.outcome = "ok"
    => /\ HasDataset(datasets, Oid(last.dataset_id))
       /\ Oid(last.import_id) \in ImportIdsIn(DatasetById(datasets, Oid(last.dataset_id)))
       /\ last.import_id # last.dataset_id

\* C9 (as claimed): the datasets collection holds at most one dataset per
\* (name, sheet index) pair.
C9_OneDatasetPerPair ==
  \A i, j \in 1..Len(datasets) :
    (datasets[i].name = datasets[j].name /\ datasets[i].sheet_index = datasets[j].sheet_index)
      => i = j

\* C10 (as claimed): a save that matches an existing dataset overwrites its
\* name, title, description and options with the values of this save.
C10_MatchedSaveOverwrites ==
  [][ SavedOnExisting
      => LET d == DatasetById(datasets', Oid(last'.dataset_id))
         IN /\ d.name = last'.inp.filename
            /\ d.title = last'.inp.meta.title
            /\ d.description = last'.inp.meta.description
            /\ d.options = WithUpdatedAt(SanitizedOptions(last'.inp), now) ]_vars

\* ---------------------------------------------------------------- claims, continued
\* the step is a call of save_import_with_rows
Called == last'.seq = last.seq + 1
\* the dataset that find_one of update_record finds for a request (0: none)
FoundFor(inp) ==
  FindOne(datasets, ToCriteria(DataSetMatcherOf(inp.dataset_id, inp.filename,
                                                inp.sheet_index)))
PairExists(coll, inp) ==
  \E i \in 1..Len(coll) :
    coll[i].name = inp.filename /\ coll[i].sheet_index = inp.sheet_index

\* C11 (as claimed): a save whose dataset id does not parse as an identifier
\* is resolved by (filename, sheet_index): when a dataset with that pair is
\* stored, the save reuses it and creates no dataset.
C11_BadDatasetIdUsesPair ==
  [][ ( /\ SavedOk /\ last'.inp.dataset_id.some
        /\ ~ObjectIdFromStr(last'.inp.dataset_id.val).ok
        /\ PairExists(datasets, last'.inp) )
      => /\ last'.path = "updated"
         /\ Len(datasets') = Len(datasets)
         /\ HasDataset(datasets, Oid(last'.dataset_id))
         /\ PairExists(<<DatasetById(datasets', Oid(last'.dataset_id))>>, last'.inp) ]_vars

\* C12 (as claimed): no call of save_import_with_rows panics, whatever the
\* import id string is.
C12_NeverPanics == last.outcome # "panic"

\* C13: whenever save_import gives no (dataset, import) identifiers, the
\* call returns failure and data_rows is the same before and after: no row
\* deleted, none inserted.
C13_NoIdsNoRows ==
  [][ ( /\ Called /\ last'.outcome # "panic"
        /\ ~SaveImport(datasets, last'.inp,
                       IF last'.inp.import_id.some
                         THEN Some(Oid(last'.inp.import_id.val)) ELSE NoOid,
                       nextId, now, last'.fail).res.some )
      => /\ last'.outcome = "failure"
         /\ data_rows' = data_rows
         /\ nextRow' = nextRow ]_vars

\* a ReplaceAll save of two rows that failed while a dataset of its pair has
\* rows, which are still there
C13_Witness ==
  /\ last.outcome = "failure" /\ last.fail \in {"insert", "readback"}
  /\ ~last.inp.append /\ Len(last.inp.rows) = 2
  /\ \E i \in 1..Len(datasets) :
       /\ datasets[i].name = last.inp.filename
       /\ datasets[i].sheet_index = last.inp.sheet_index
       /\ Len(RowsWhere(data_rows, "dataset_id", datasets[i]._id)) > 0

\* C14 (as claimed): when the find_one or the update_one of update_record
\* fails, or the find_one of insert_record after the insert of a new
\* dataset, the save returns failure and datasets holds no document that
\* was not there before.
C14_ResolveFailureLeavesNoDataset ==
  [][ ( /\ Called
        /\ \/ last'.fail = "find"
           \/ last'.fail = "update" /\ FoundFor(last'.inp) # 0
           \/ last'.fail = "readback" /\ FoundFor(last'.inp) = 0 )
      => /\ last'.outcome = "failure"
         /\ Ids(datasets') \subseteq Ids(datasets) ]_vars

Min(a, b) == IF a <= b THEN a ELSE b

\* C15: to_pagination returns the requested start, or 0 when omitted, and
\* min(requested limit, configured maximum) with the limit taken as 100 when
\* omitted; the returned limit never exceeds the configured maximum, which
\* is 10,000 when LISTING_LIMIT is not set: 1,000,000 becomes 10,000.
C15_Pagination ==
  query.op = "to_pagination"
    => LET max == IF query.env.some /\ query.env.val.ok THEN query.env.val.n ELSE 10000
           requested == IF query.limit.some THEN query.limit.val ELSE 100
       IN /\ query.result.start = (IF query.start.some THEN query.start.val ELSE 0)
          /\ query.result.limit = Min(requested, max)
          /\ query.result.limit <= max
          /\ (~query.env.some /\ query.limit = Some(1000000)) => query.result.limit = 10000
          /\ (~query.env.some /\ ~query.limit.some) => query.result.limit = 100

C15_Witness ==
  /\ query.op = "to_pagination" /\ ~query.env.some
  /\ query.limit = Some(1000000) /\ query.result.limit = 10000

\* C16 (as claimed): cast_to_comparison gives the first success of the
\* cascade: the numeric parse (i64 for a declared integer, f64 otherwise)
\* when the value is lexically numeric or the declared type is numeric;
\* failing that a timestamp when the value is date-like and parses; failing
\* that a boolean when the value is a truthy or falsy token; otherwise the
\* raw string. A step that fails falls through to the next one.
C16_CastCascade ==
  query.op = "cast_to_comparison"
    => LET v == query.value
           numeric == IF ~(v.is_numeric \/ query.dt \in {"Float", "Integer"}) THEN NoFloat
                      ELSE IF query.dt = "Integer" THEN v.i64 ELSE v.f64
           first == IF numeric.some
                      THEN [type |-> IF query.dt = "Integer" THEN "i64" ELSE "f64",
                            val |-> numeric.val]
                    ELSE IF v.datetime_like /\ v.datetime.some
                      THEN [type |-> "datetime", val |-> v.datetime.val]
                    ELSE IF v.truthy.some
                      THEN [type |-> "bool", val |-> v.truthy.val]
                    ELSE [type |-> "string", val |-> v.text]
       IN /\ query.result.op = query.operator
          /\ query.result.type = first.type
          /\ query.result.val = first.val

\* a text against a like expression read as the claim reads it: % stands
\* for any run of characters, every other character for itself
WildcardMatches(expr, value) ==
  LET n == Len(expr)
      m == Len(value)
      ok[i \in 1..(n + 1), j \in 1..(m + 1)] ==
        IF i > n THEN j = m + 1
        ELSE IF expr[i] = "%" THEN ok[i + 1, j] \/ (j <= m /\ ok[i, j + 1])
        ELSE j <= m /\ value[j] = expr[i] /\ ok[i + 1, j + 1]
  IN ok[1, 1]

\* C17 (as claimed): the pattern built for like is anchored at both ends,
\* turns each % into a wildcard run and makes each . and each ? match only
\* that character: a value matches the pattern exactly when it matches the
\* like expression, so like("a.b") matches "a.b" and nothing else, and
\* like("50%") matches every value that starts with 50.
C17_LikePattern ==
  query.op = "str_to_like_pattern"
    => /\ query.result[1] = "^" /\ query.result[Len(query.result)] = "$"
       /\ \A v \in LikeValues :
            RegexMatches(query.result, v) <=> WildcardMatches(query.value, v)

\* C18 (as claimed): match_sort_direction returns +1 or -1, and -1 exactly
\* when the trimmed, lower-cased key is "desc", is a number with a minus
\* sign (integer or not), or starts with "desc", "down" or "dsc".
C18_SortDirection ==
  query.op = "match_sort_direction"
    => LET k == ToLowercase(Trim(query.key))
           negative ==
             /\ Len(k) > 1 /\ k[1] = "-"
             /\ \E i \in 2..Len(k) : k[i] \in Digits
             /\ \A i \in 2..Len(k) : k[i] \in Digits \cup {"."}
             /\ Cardinality({i \in 2..Len(k) : k[i] = "."}) <= 1
       IN /\ query.result \in {1, -1}
          /\ query.result = -1
               <=> \/ k = <<"d", "e", "s", "c">>
                   \/ negative
                   \/ StartsWith(k, <<"d", "e", "s", "c">>)
                   \/ StartsWith(k, <<"d", "o", "w", "n">>)
                   \/ StartsWith(k, <<"d", "s", "c">>)

\* C20 (as claimed): a payload string YYYY-MM-DDTHH:MM:SS.sssZ that is a
\* timestamp (an existing date, a time of day up to 23:59, seconds up to 60)
\* is stored as a timestamp by convert_datetime_strings and rendered by
\* bson_to_json as the identical string.
C20_TimestampRoundTrip ==
  ( /\ query.op = "round_trip"
    /\ query.value.mo \in 1..12
    /\ query.value.d \in 1..DaysInMonth(query.value.y, query.value.mo)
    /\ query.value.h \in 0..23 /\ query.value.mi \in 0..59 /\ query.value.s \in 0..60 )
    => /\ query.stored.bson = "datetime"
       /\ query.result = query.value

\* C19: fetch_dataset returns None, without reading data_rows, when the
\* dataset id string is not a well-formed identifier or is the identifier
\* of no dataset; it returns a RowSet exactly when the dataset exists, with
\* that dataset and the limit and skip it was given.
C19_FetchNotFound ==
  query.op = "fetch_dataset"
    => LET exists == /\ query.dataset_id.kind = "hex"
                     /\ HasDataset(datasets, query.dataset_id.oid)
       IN /\ query.result.some <=> exists
          /\ ~exists => ~query.queried
          /\ exists => /\ query.result.val.dataset
                             = DatasetById(datasets, query.dataset_id.oid)
                        /\ query.result.val.limit = query.limit
                        /\ query.result.val.skip = query.skip

\* a malformed id, and the id of an import, sent when datasets and rows are
\* stored: not found
C19_Witness ==
  /\ query.op = "fetch_dataset" /\ ~query.result.some /\ ~query.queried
  /\ Len(datasets) > 0 /\ Len(data_rows) > 0
  /\ \/ query.dataset_id.kind = "bad"
     \/ query.dataset_id.oid \in ImportIdsOf(1..Len(datasets))

\* C21 (as claimed): on write a string of the row payload is converted to
\* a timestamp in the same way at every depth: at the top level, inside a
\* nested document and inside an array.
C21_ConvertsAtEveryDepth ==
  query.op = "convert_datetime_strings"
    => /\ query.result.when = ConvertDatetimeString(query.doc.when.val)
       /\ query.result.nested.val.when
            = ConvertDatetimeString(query.doc.nested.val.when.val)
       /\ query.result.list.val[1] = ConvertDatetimeString(query.doc.list.val[1].val)

\* C24 (as claimed): every row that fetch_dataset returns is a row of the
\* dataset asked for and, when an import id is given, of that import; an
\* import id that is malformed or is the identity of no import of the
\* dataset gives no rows.
C24_FetchScoped ==
  (query.op = "fetch_dataset" /\ query.result.some)
    => LET D == query.dataset_id.oid
           Scoped(r) ==
             /\ r.dataset_id = D
             /\ query.import_id.some
                  => /\ query.import_id.val.kind = "hex"
                     /\ r.import_id = query.import_id.val.oid
           scope == SelectSeq(data_rows, Scoped)
           returned == query.result.val.rows
       IN /\ Len(returned) <= Len(scope)
          /\ \A i \in 1..Len(returned) : \E j \in 1..Len(scope) : scope[j].data = returned[i]
          /\ ( /\ query.import_id.some
               /\ \/ query.import_id.val.kind = "bad"
                  \/ query.import_id.val.oid \notin ImportIdsIn(DatasetById(datasets, D)) )
               => returned = <<>>

\* C25 (as claimed): every stored row has the dataset_id of a stored
\* dataset and the import_id of an entry of that dataset's imports list.
C25_RowsReferToImports ==
  \A i \in 1..Len(data_rows) :
    /\ HasDataset(datasets, data_rows[i].dataset_id)
    /\ data_rows[i].import_id
         \in ImportIdsIn(DatasetById(datasets, data_rows[i].dataset_id))

\* C26 (as claimed): every import entry that a save adds, to a new dataset
\* or to an existing one, has the filename and the sheet index of that
\* save, an identity that was not in use and the time of the save.
C26_ImportAttributes ==
  [][ SavedOk
      => LET d == DatasetById(datasets', Oid(last'.dataset_id))
             old == IF HasDataset(datasets, d._id)
                      THEN ImportIdsIn(DatasetById(datasets, d._id)) ELSE {}
         IN \A j \in 1..Len(d.imports) :
              d.imports[j]._id \notin old
                => /\ d.imports[j].filename = last'.inp.filename
                   /\ d.imports[j].sheet_index = last'.inp.sheet_index
                   /\ d.imports[j].dt = now
                   /\ d.imports[j]._id >= nextId ]_vars

\* C27 (as claimed): after a save that matches an existing dataset, the
\* top-level field updated_at of that dataset is the time of the save.
C27_UpdatedAtSet ==
  [][ SavedOnExisting
      => LET d == DatasetById(datasets', Oid(last'.dataset_id))
         IN ContainsKey(d, "updated_at") /\ d.updated_at = now ]_vars

\* C28 (as claimed): whatever limit a get_dataset request asks for, 0
\* included, the RowSet holds at most as many rows as the configured
\* maximum (LISTING_LIMIT, or 10,000 when it is not set).
C28_RowsWithinMaximum ==
  (query.op = "get_dataset" /\ query.result.some)
    => Len(query.result.val.rows)
         <= (IF query.env.some /\ query.env.val.ok THEN query.env.val.n ELSE 10000)

\* C30: a save that resolves to dataset D leaves every row whose dataset_id
\* is not D as it was, in every replace mode, with or without data_pk.
C30_SaveFrame ==
  [][ SavedOk
      => \A i \in 1..Len(data_rows) :
           data_rows[i].dataset_id # Oid(last'.dataset_id)
             => \E j \in 1..Len(data_rows') : data_rows'[j] = data_rows[i] ]_vars

\* a replacing save that deleted rows of its dataset while another dataset
\* has rows
C30_Witness ==
  /\ last.outcome = "ok" /\ last.mode \in {"ReplaceAll", "ReplaceImport"}
  /\ Len(data_rows) < nextRow - 1
  /\ \E i \in 1..Len(data_rows) : data_rows[i].dataset_id # Oid(last.dataset_id)
  /\ \E i \in 1..Len(data_rows) : data_rows[i].dataset_id = Oid(last.dataset_id)

\* ---------------------------------------------------------------- concurrent calls
\* the call p has in flight, and the steps it takes
Sv(p) == inflight.saves[p]
StepDelete(p) == Sv(p).pc = "resolved" /\ inflight'.saves[p].pc = "deleted"
StepInsert(p) ==
  /\ Sv(p).pc \in {"resolved", "deleted"}
  /\ inflight'.saves[p].pc = "done"
StepStop(p) == Sv(p).pc = "deleted" /\ inflight'.saves[p].pc = "stopped"
StepFind == inflight.fetch.pc = "found" /\ inflight'.fetch.pc = "read"
Replacing(p) == Sv(p).mode \in {"ReplaceAll", "ReplaceImport"}

\* C22: two ReplaceAll saves on one dataset are not one atomic replacement
\* each. Every step has its own effect on the rows as they are when it runs:
\* the delete of a ReplaceAll save removes every row of the dataset then
\* stored (the rows another call in flight has inserted included), and the
\* insert appends the rows of its call to whatever is stored then, removing
\* nothing; so the final rows are the net effect of the steps in the order
\* they ran (the witness: both calls completed, rows of both stored)
C22_NetEffectOfSteps ==
  [][ \A p \in Procs :
        /\ (StepDelete(p) /\ Sv(p).mode = "ReplaceAll")
             => LET Other(r) == r.dataset_id # Sv(p).dataset_id
                IN data_rows' = SelectSeq(data_rows, Other)
        /\ StepInsert(p)
             => /\ Len(data_rows') = Len(data_rows) + Len(Sv(p).inp.rows)
                /\ SubSeq(data_rows', 1, Len(data_rows)) = data_rows
                /\ \A k \in 1..Len(Sv(p).inp.rows) :
                     /\ data_rows'[Len(data_rows) + k].data = Sv(p).inp.rows[k]
                     /\ data_rows'[Len(data_rows) + k].dataset_id = Sv(p).dataset_id
    ]_vars

\* two calls only, both ReplaceAll on one dataset, both completed, and the
\* dataset holds len(R1) + len(R2) rows, rows of both
C22_Witness ==
  /\ now = 3 /\ last.seq = 2
  /\ \A p \in Procs : Sv(p).pc = "done" /\ Sv(p).mode = "ReplaceAll"
  /\ Sv(1).dataset_id = Sv(2).dataset_id
  /\ Sv(1).inp.rows = ConcBatch1 /\ Sv(2).inp.rows = ConcBatch2
  /\ Len(RowsWhere(data_rows, "dataset_id", Sv(1).dataset_id))
       = Len(ConcBatch1) + Len(ConcBatch2)
  /\ \E i \in 1..Len(data_rows) : data_rows[i].data = ConcBatch1[1]
  /\ \E i \in 1..Len(data_rows) : data_rows[i].data = ConcBatch2[1]

\* C23: in a ReplaceAll or ReplaceImport save the delete is a step of its
\* own that empties the scope and inserts nothing; the insert of such a save
\* only follows its delete; a find that runs while a saver is between the two
\* steps and the scope is empty returns no row of the scope; a save that
\* stops after its delete changes no row, then or later
C23_DeleteThenInsert ==
  [][ \A p \in Procs :
        /\ StepDelete(p)
             => /\ Replacing(p)
                /\ RowsWhere(data_rows', ScopeOf(Sv(p)).val[1],
                             ScopeOf(Sv(p)).val[2]) = <<>>
                /\ Len(data_rows') <= Len(data_rows)
        /\ (StepInsert(p) /\ Replacing(p)) => Sv(p).pc = "deleted"
        /\ (StepFind /\ Sv(p).pc = "deleted"
              /\ RowsWhere(data_rows, ScopeOf(Sv(p)).val[1],
                           ScopeOf(Sv(p)).val[2]) = <<>>)
             => RowsWhere(inflight'.fetch.rows, ScopeOf(Sv(p)).val[1],
                          ScopeOf(Sv(p)).val[2]) = <<>>
        /\ StepStop(p) => data_rows' = data_rows
        /\ (Sv(p).pc = "stopped" /\ inflight'.saves[p] # Sv(p))
             => data_rows' = data_rows
    ]_vars

\* a completed save had stored rows in the dataset, a ReplaceAll save on it
\* stopped after its delete, and a fetch of the dataset found no row
C23_Witness ==
  \E p \in Procs :
    /\ Sv(p).pc = "stopped" /\ Sv(p).mode = "ReplaceAll"
    /\ last.outcome = "ok" /\ last.count > 0
    /\ Oid(last.dataset_id) = Sv(p).dataset_id
    /\ RowsWhere(data_rows, "dataset_id", Sv(p).dataset_id) = <<>>
    /\ inflight.fetch.pc = "done"
    /\ inflight.fetch.dset = Sv(p).dataset_id
    /\ inflight.fetch.rows = <<>>
    /\ inflight.fetch.total = 0

\* C29: a fetch never returns more rows than its total, also while saves on
\* the dataset are in flight
C29_RowsWithinTotal ==
  inflight.fetch.pc = "done"
    => Len(inflight.fetch.rows) <= inflight.fetch.total

====
